---- MODULE Spec2Model ----
(***************************************************************************)
(* Model of src/dualMomentum.ts (the exported version, lines 1-202): the   *)
(* module load (requireEnv), getReturn, momentumStrategy, sendEmail, main  *)
(* and the annual-window predicate.                                        *)
(* Lines 204-306 of the file repeat an earlier version of the script (no   *)
(* risk-free filter, no exports); it is not the one the tests import and    *)
(* is not modelled.                                                        *)
(*                                                                         *)
(* Numbers.  A close is a positive integer price.  A return is the exact   *)
(* rational endPrice / startPrice - 1, kept in lowest terms as             *)
(* [num, den] with den > 0; for the small prices used here two returns are *)
(* equal as IEEE doubles exactly when they are equal as rationals.  Where  *)
(* the rounding of the doubles shows, in toPercent, it is computed.        *)
(* Strings that the code parses or tests for emptiness (environment        *)
(* values) are tuples of one-character strings.                            *)
(***************************************************************************)
EXTENDS Integers, Sequences, FiniteSets, TLC

VARIABLES
    env,        \* process.env: a function from the names that are set to their values
                \* (at "load" as the process got it, then with what .env added)
    pc,         \* position of the process / of the harness
    consts,     \* EMAIL_FROM, EMAIL_TO, EMAIL_PASS as bound at module load
    loadError,  \* the error thrown while the module loads, or NoError
    fetch,      \* per ticker role: "idle", "pending", "ok", "failed"
    fetchCalls, \* per ticker role: number of yahooFinance.historical calls issued
    rets,       \* per ticker role: the value getReturn resolved with (when fetch = "ok")
    result,     \* the MomentumResult momentumStrategy resolved with, or NoResult
    mails,      \* the messages handed to transporter.sendMail, in order, with their status
    exitCode,   \* -1 while running, else the process exit status
    errorLog,   \* what console.error was given in main's catch, or NoError
    rejection,  \* the reason Promise.all (line 96) rejected with, or NoError
    today,      \* the value new Date() yields at the window check (line 179)
    hist,       \* getReturn harness: the history the provider returned
    out,        \* getReturn harness: the outcome of the call, or NoOutcome
    lastCall    \* window harness: the last call of an exported function and its result

vars == <<env, pc, consts, loadError, fetch, fetchCalls, rets, result, mails,
          exitCode, errorLog, rejection, today, hist, out, lastCall>>

----------------------------------------------------------------------------
(* Bounds of the model                                                     *)

MaxLen == 4                 \* longest price history the provider returns
Prices == {1, 2}            \* the numeric close values

----------------------------------------------------------------------------
(* Configuration constants                                                 *)

ASSETS == [US |-> "VOO", INTL |-> "VXUS", BONDS |-> "BND"]
RISK_FREE_SYMBOL == "BIL"
LOOKBACK_MONTHS == 12
SKIP_LAST_MONTH == TRUE

Roles == {"US", "INTL", "RF"}
TickerOf(role) == IF role = "RF" THEN RISK_FREE_SYMBOL ELSE ASSETS[role]
Tickers == {ASSETS.US, ASSETS.INTL, ASSETS.BONDS}

----------------------------------------------------------------------------
(* JavaScript values of a sample field                                     *)

Nullish == [kind |-> "nullish", v |-> 0]      \* undefined or null
NotFinite == [kind |-> "nan", v |-> 0]        \* NaN, +-Infinity: a number, not finite
Num(n) == [kind |-> "number", v |-> n]

\* a ?? b
Coalesce(a, b) == IF a.kind = "nullish" THEN b ELSE a

isNumber(x) == x.kind = "number"

----------------------------------------------------------------------------
(* Rationals                                                               *)

Abs(n) == IF n < 0 THEN -n ELSE n

RECURSIVE GCD(_, _)
GCD(a, b) == IF b = 0 THEN a ELSE GCD(b, a % b)

\* n / d in lowest terms, d > 0
Rat(n, d) ==
    LET g == GCD(Abs(n), d)
    IN  [num |-> n \div g, den |-> d \div g]

RatGt(a, b) == a.num * b.den > b.num * a.den
RatEq(a, b) == a.num * b.den = b.num * a.den

\* Math.max
MathMax(a, b) == IF RatGt(a, b) THEN a ELSE b

----------------------------------------------------------------------------
(* getReturn                                                               *)

FieldValues == {Nullish, NotFinite} \cup {Num(p) : p \in Prices}
Samples == [adjClose : FieldValues, close : FieldValues]
Histories == UNION {[1..n -> Samples] : n \in 0..MaxLen}

\* history.map((h) => h.adjClose ?? h.close ?? null)
MapCloses(history) ==
    [i \in 1..Len(history) |->
        Coalesce(Coalesce(history[i].adjClose, history[i].close), Nullish)]

\* closes.slice(0, -1)
SliceDropLast(s) == SubSeq(s, 1, Len(s) - 1)

\* The closes getReturn computes on, lines 64-68
Closes(history) ==
    LET numeric == SelectSeq(MapCloses(history), isNumber)
    IN  IF SKIP_LAST_MONTH THEN SliceDropLast(numeric) ELSE numeric

Thrown(msg, arg) == [ok |-> FALSE, error |-> <<msg, arg>>, value |-> Rat(0, 1)]
Returned(r) == [ok |-> TRUE, error |-> <<>>, value |-> r]

\* Variant of getReturn: a single remaining close is accepted
getReturn_NeedsOne(ticker, history) ==
    LET closes == Closes(history)
    IN  IF Len(closes) < 1
        THEN Thrown("Insufficient price data for ", ticker)
        ELSE Returned(Rat(closes[Len(closes)].v - closes[1].v, closes[1].v))

getReturn(ticker, history) ==
    LET closes == Closes(history)
    IN  IF Len(closes) < 2
        THEN Thrown("Insufficient price data for ", ticker)
        ELSE LET startPrice == closes[1].v
                 endPrice == closes[Len(closes)].v
             IN  Returned(Rat(endPrice - startPrice, startPrice))

----------------------------------------------------------------------------
(* toPercent and momentumStrategy                                          *)

TwoDigits(n) == IF n < 10 THEN "0" \o ToString(n) ELSE ToString(n)

PowersOfTwo ==
    <<1, 2, 4, 8, 16, 32, 64, 128, 256, 512, 1024, 2048, 4096, 8192, 16384, 32768,
      65536, 131072, 262144, 524288, 1048576, 2097152, 4194304, 8388608, 16777216,
      33554432, 67108864, 134217728, 268435456, 536870912, 1073741824>>

Pow2(n) == IF n <= 0 THEN 1 ELSE PowersOfTwo[n + 1]

\* The k with 2^k <= n / d < 2^(k+1), for n, d > 0: the binary exponent of
\* the double nearest to n / d
RECURSIVE FloorLog2From(_, _, _)
FloorLog2From(n, d, e) ==
    IF n < d THEN FloorLog2From(2 * n, d, e - 1)
    ELSE IF n >= 2 * d THEN FloorLog2From(n, 2 * d, e + 1)
    ELSE e

FloorLog2(n, d) == FloorLog2From(n, d, 0)

\* Long division of a * 2^sh by s, 14 bits of the quotient at a time: of the
\* quotient floor(a * 2^sh / s) the low w bits are kept, with the remainder.
\* q, r: the same for the bits already shifted in; n: the bits still to shift.
RECURSIVE ShiftDivide(_, _, _, _, _)
ShiftDivide(q, r, n, s, w) ==
    IF n = 0 THEN [quot |-> q, rem |-> r]
    ELSE LET b == IF n < 14 THEN n ELSE 14
         IN  ShiftDivide((q * Pow2(b) + (r * Pow2(b)) \div s) % Pow2(w),
                         (r * Pow2(b)) % s, n - b, s, w)

\* IEEE 754 round to nearest, ties to even: a value that lies above a multiple
\* of unit by the given excess goes up when it is past the half, or on the
\* half with an odd multiple below it
RoundsUp(excess, unit, odd) == 2 * excess > unit \/ (2 * excess = unit /\ odd)

\* v * 100 lies exactly halfway between two hundredths
IsTie(v) == (2 * Abs(v.num) * 10000) % (2 * v.den) = v.den

\* The double arithmetic of lines 77 and 92 on a return whose exact percentage
\* is a tie.  With a = endPrice and s = startPrice in lowest terms (s below
\* 2^16, a / s at least 2^-8), each double is followed as the low bits of its
\* significand and as its distance from the exact value, err, counted in
\* units of 1 / (s * 2^(52-k)), k being the binary exponent of a / s.

\* endPrice / startPrice, line 77: q = fl(a / s), a significand of 53 bits
DoubleQuotient(a, s) ==
    LET k == FloorLog2(a, s)
        j == IF k < -1 THEN -1 - k ELSE 0
        A == ShiftDivide((a \div s) % Pow2(9 + j), a % s, 52 - k, s, 9 + j)
        up == RoundsUp(A.rem, s, A.quot % 2 = 1)
    IN  [k |-> k,
         j |-> j,
         low |-> (A.quot + (IF up THEN 1 ELSE 0)) % Pow2(9 + j),
         err |-> IF up THEN s - A.rem ELSE -A.rem]

\* ... - 1, line 77: the magnitude of r = fl(q - 1).  The difference is
\* exact for q >= 1/2; below, 1 - q lies in (1/2, 1) and is rounded to a
\* multiple of 2^-53, which drops the last j bits of q.
DoubleMinusOne(q, s) ==
    LET w == 9 + q.j
        nlow == (Pow2(w) - q.low) % Pow2(w)
        lowj == nlow % Pow2(q.j)
        rfl == nlow \div Pow2(q.j)
        up2 == RoundsUp(lowj, Pow2(q.j), rfl % 2 = 1)
    IN  IF q.k >= 0 THEN [low |-> q.low, err |-> q.err]
        ELSE IF q.k = -1 THEN [low |-> nlow, err |-> -q.err]
        ELSE [low |-> (rfl + (IF up2 THEN 1 ELSE 0)) % Pow2(9),
              err |-> (IF up2 THEN Pow2(q.j) - lowj ELSE -lowj) * s - q.err]

\* v * 100, line 92: what the rounding of the product to 53 bits adds to its
\* magnitude, in units of the last place of r.  t is the number of bits the
\* product has beyond 53.
DoubleTimes100(v, q, r) ==
    LET E0 == FloorLog2(100 * Abs(v.num), v.den)
        isPow == IF E0 >= 0 THEN Pow2(E0) * v.den = 100 * Abs(v.num)
                 ELSE v.den = 100 * Abs(v.num) * Pow2(-E0)
        E == IF isPow /\ r.err < 0 THEN E0 - 1 ELSE E0
        t == IF q.k >= -1 THEN E - q.k ELSE E + 1
        L == (100 * r.low) % Pow2(t + 1)
        rem == L % Pow2(t)
    IN  IF t <= 0 THEN 0
        ELSE IF RoundsUp(rem, Pow2(t), L \div Pow2(t) = 1) THEN Pow2(t) - rem
        ELSE -rem

\* toFixed(2) takes the larger magnitude exactly when the double fl(v * 100)
\* is not below the tie
TieRoundsUp(v) ==
    LET q == DoubleQuotient(v.num + v.den, v.den)
        r == DoubleMinusOne(q, v.den)
    IN  100 * r.err + DoubleTimes100(v, q, r) * v.den * Pow2(q.j) >= 0

\* (v * 100).toFixed(2) + "%", line 92: the magnitude rounded to the nearest
\* hundredth with the sign of v in front.  Off a tie the double arithmetic
\* cannot change the nearest hundredth (its error is below 2^-45, the distance
\* to a tie at least 1 / (200 * den)); on a tie the double decides.
toPercent(v) ==
    LET scaled == Abs(v.num) * 10000
        h0 == scaled \div v.den
        h == IF IsTie(v)
             THEN h0 + (IF TieRoundsUp(v) THEN 1 ELSE 0)
             ELSE (2 * scaled + v.den) \div (2 * v.den)
    IN  (IF v.num < 0 THEN "-" ELSE "")
        \o ToString(h \div 100) \o "." \o TwoDigits(h % 100) \o "%"

NoWinner == "null"

\* The result record built from a nominal winner, its return and the filter's
\* verdict, for the variants of momentumStrategy below
StrategyResult(usReturn, intlReturn, riskFreeReturn, winner, winnerRet, passed, cited) ==
    [usReturn |-> usReturn,
     intlReturn |-> intlReturn,
     riskFreeReturn |-> riskFreeReturn,
     winner |-> IF ~passed THEN NoWinner ELSE winner,
     recommendation |->
        IF ~passed
        THEN <<"Move to Bonds (", ASSETS.BONDS, "). Absolute momentum failed: ",
               cited, " 12m ", toPercent(winnerRet),
               " <= Risk-free (", toPercent(riskFreeReturn), ").">>
        ELSE <<"Allocate 100% to ", winner, " (", ASSETS[winner],
               "). (Beats risk-free ", toPercent(riskFreeReturn), ")">>,
     absoluteFilterPassed |-> passed]

\* Variant: the comparison of line 103 reversed
momentumStrategy_SwappedWinner(usReturn, intlReturn, riskFreeReturn) ==
    LET winner == IF RatGt(intlReturn, usReturn) THEN "US" ELSE "INTL"
        winnerRet == MathMax(usReturn, intlReturn)
    IN  StrategyResult(usReturn, intlReturn, riskFreeReturn, winner, winnerRet,
                       RatGt(winnerRet, riskFreeReturn), winner)

\* Variant: the filter of line 107 passes on equality
momentumStrategy_FilterGe(usReturn, intlReturn, riskFreeReturn) ==
    LET winner == IF RatGt(usReturn, intlReturn) THEN "US" ELSE "INTL"
        winnerRet == MathMax(usReturn, intlReturn)
    IN  StrategyResult(usReturn, intlReturn, riskFreeReturn, winner, winnerRet,
                       ~RatGt(riskFreeReturn, winnerRet), winner)

\* Variant: line 103 with >=, a tie going to US
momentumStrategy_TieToUS(usReturn, intlReturn, riskFreeReturn) ==
    LET winner == IF ~RatGt(intlReturn, usReturn) THEN "US" ELSE "INTL"
        winnerRet == MathMax(usReturn, intlReturn)
    IN  StrategyResult(usReturn, intlReturn, riskFreeReturn, winner, winnerRet,
                       RatGt(winnerRet, riskFreeReturn), winner)

\* Variant: the failure text cites the equity that trailed
momentumStrategy_CitesLoser(usReturn, intlReturn, riskFreeReturn) ==
    LET winner == IF RatGt(usReturn, intlReturn) THEN "US" ELSE "INTL"
        winnerRet == MathMax(usReturn, intlReturn)
    IN  StrategyResult(usReturn, intlReturn, riskFreeReturn, winner, winnerRet,
                       RatGt(winnerRet, riskFreeReturn),
                       IF winner = "US" THEN "INTL" ELSE "US")

\* Lines 102-127, applied to the three values Promise.all resolved with.
\* The recommendation string is kept as the sequence of its pieces.
momentumStrategy(usReturn, intlReturn, riskFreeReturn) ==
    LET winner == IF RatGt(usReturn, intlReturn) THEN "US" ELSE "INTL"
        winnerRet == MathMax(usReturn, intlReturn)
        absoluteFilterPassed == RatGt(winnerRet, riskFreeReturn)
    IN  [usReturn |-> usReturn,
         intlReturn |-> intlReturn,
         riskFreeReturn |-> riskFreeReturn,
         winner |-> IF ~absoluteFilterPassed THEN NoWinner ELSE winner,
         recommendation |->
            IF ~absoluteFilterPassed
            THEN <<"Move to Bonds (", ASSETS.BONDS, "). Absolute momentum failed: ",
                   winner, " 12m ", toPercent(winnerRet),
                   " <= Risk-free (", toPercent(riskFreeReturn), ").">>
            ELSE <<"Allocate 100% to ", winner, " (", ASSETS[winner],
                   "). (Beats risk-free ", toPercent(riskFreeReturn), ")">>,
         absoluteFilterPassed |-> absoluteFilterPassed]

----------------------------------------------------------------------------
(* Environment: requireEnv, getTaxableConfig, isInTaxableAnnualWindow      *)

EmailNames == <<"EMAIL_FROM", "EMAIL_TO", "EMAIL_PASS">>
MONTH_VAR == "TAXABLE_REBALANCE_MONTH"
WINDOW_VAR == "TAXABLE_REBALANCE_WINDOW_DAYS"

IsSet(e, name) == name \in DOMAIN e

\* Variant of requireEnv: only an unset variable is missing
requireEnv_AcceptsEmpty(e, name) ==
    IF ~IsSet(e, name)
    THEN [ok |-> FALSE, error |-> <<"Missing required env var: ", name>>, value |-> <<>>]
    ELSE [ok |-> TRUE, error |-> <<>>, value |-> e[name]]

\* const v = process.env[name]; if (!v) throw ...; return v
requireEnv(e, name) ==
    IF ~IsSet(e, name) \/ Len(e[name]) = 0
    THEN [ok |-> FALSE, error |-> <<"Missing required env var: ", name>>, value |-> <<>>]
    ELSE [ok |-> TRUE, error |-> <<>>, value |-> e[name]]

Digits == <<"0", "1", "2", "3", "4", "5", "6", "7", "8", "9">>
IsDigit(c) == \E i \in 1..10 : Digits[i] = c
DigitValue(c) == (CHOOSE i \in 1..10 : Digits[i] = c) - 1

\* StrWhiteSpaceChar, the characters Number.parseInt strips from the front:
\* WhiteSpace (TAB, VT, FF, SP, NBSP, ZWNBSP and the space separators) and
\* LineTerminator (LF, CR, LS, PS).  A character that has no escape in a
\* string here is written as its code point.
WhiteSpaceChars ==
    {" ", "\t", "\n", "\r", "\f", "U+000B", "U+00A0", "U+FEFF", "U+1680",
     "U+2000", "U+2001", "U+2002", "U+2003", "U+2004", "U+2005", "U+2006",
     "U+2007", "U+2008", "U+2009", "U+200A", "U+2028", "U+2029", "U+202F",
     "U+205F", "U+3000"}

IsSpace(c) == c \in WhiteSpaceChars

RECURSIVE SkipSpace(_)
SkipSpace(s) == IF Len(s) > 0 /\ IsSpace(Head(s)) THEN SkipSpace(Tail(s)) ELSE s

\* value of the longest prefix of decimal digits of s, continuing from acc
RECURSIVE DigitRun(_, _)
DigitRun(s, acc) ==
    IF Len(s) > 0 /\ IsDigit(Head(s))
    THEN DigitRun(Tail(s), 10 * acc + DigitValue(Head(s)))
    ELSE acc

\* Number.parseInt(s, 10): leading white space, an optional sign, then the
\* longest run of digits; NaN when there is no digit
parseInt(s) ==
    LET t == SkipSpace(s)
        signed == Len(t) > 0 /\ Head(t) \in {"-", "+"}
        body == IF signed THEN Tail(t) ELSE t
    IN  IF Len(body) = 0 \/ ~IsDigit(Head(body))
        THEN NotFinite
        ELSE Num((IF signed /\ Head(t) = "-" THEN -1 ELSE 1) * DigitRun(body, 0))

\* process.env.X ?? dflt
EnvOr(e, name, dflt) == IF IsSet(e, name) THEN e[name] ELSE dflt

getTaxableConfig(e) ==
    LET monthRaw == parseInt(EnvOr(e, MONTH_VAR, <<"1">>))
        windowRaw == parseInt(EnvOr(e, WINDOW_VAR, <<"7">>))
    IN  [month |-> IF isNumber(monthRaw) /\ monthRaw.v >= 1 /\ monthRaw.v <= 12
                   THEN monthRaw.v ELSE 1,
         windowDays |-> IF isNumber(windowRaw) /\ windowRaw.v > 0 /\ windowRaw.v <= 31
                        THEN windowRaw.v ELSE 7]

\* A Date is its local calendar fields: month is 0-based (getMonth), date is
\* the day of the month (getDate)
getMonth(d) == d.month
getDate(d) == d.date

\* Variant of isInTaxableAnnualWindow: the last day of the window is outside
isInTaxableAnnualWindow_Strict(e, d) ==
    LET cfg == getTaxableConfig(e)
    IN  getMonth(d) + 1 = cfg.month /\ getDate(d) < cfg.windowDays

isInTaxableAnnualWindow(e, d) ==
    LET cfg == getTaxableConfig(e)
        currentMonth == getMonth(d) + 1
        day == getDate(d)
    IN  currentMonth = cfg.month /\ day <= cfg.windowDays

----------------------------------------------------------------------------
(* sendEmail and the e-mail bodies main builds                             *)

BasePrefix == <<>>                       \* opts?.subjectPrefix ?? ""
TaxablePrefix == <<"[Taxable Annual] ">>

PassLabel(r) == IF r.absoluteFilterPassed THEN "PASSED" ELSE "FAILED"

\* logLines[0..3], lines 166-169; a line is the sequence of its pieces
logLines(r) ==
    << <<"US (", ASSETS.US, ") 12m: ", toPercent(r.usReturn)>>,
       <<"INTL (", ASSETS.INTL, ") 12m: ", toPercent(r.intlReturn)>>,
       <<"Risk-free (", RISK_FREE_SYMBOL, ") 12m: ", toPercent(r.riskFreeReturn)>>,
       <<"Absolute filter: ", PassLabel(r)>> >>

\* line 175: the four log lines, a blank line, the recommendation
baseEmailBody(r) == logLines(r) \o << <<>>, r.recommendation >>

\* lines 181-187
taxableMsg(r) ==
    << <<"Annual taxable account rebalance window is open.">>, <<>> >>
    \o logLines(r) \o << <<>>, r.recommendation >>

\* The argument of transporter.sendMail and the transport's credentials,
\* lines 134-151 (the date that ends the subject is left out), with the
\* state of the delivery
sendEmail(c, message, subjectPrefix) ==
    [user |-> c.EMAIL_FROM,
     pass |-> c.EMAIL_PASS,
     from |-> c.EMAIL_FROM,
     to |-> c.EMAIL_TO,
     subject |-> subjectPrefix \o <<"Dual Momentum Rebalance - ">>,
     text |-> message,
     status |-> "pending"]

----------------------------------------------------------------------------
(* Values that stand for "nothing yet"                                     *)

NoError == <<>>
NoConsts == [EMAIL_FROM |-> <<>>, EMAIL_TO |-> <<>>, EMAIL_PASS |-> <<>>]
NoResult == [usReturn |-> Rat(0, 1), intlReturn |-> Rat(0, 1), riskFreeReturn |-> Rat(0, 1),
             winner |-> NoWinner, recommendation |-> <<>>, absoluteFilterPassed |-> FALSE]
NoOutcome == [ok |-> FALSE, error |-> <<>>, value |-> Rat(0, 1)]
NoDate == [year |-> 0, month |-> 0, date |-> 0]
NoCall == [fn |-> "none", d |-> NoDate, value |-> FALSE]
NoFetch == [r \in Roles |-> "idle"]
NoRets == [r \in Roles |-> Rat(0, 1)]
NoCalls == [r \in Roles |-> 0]

----------------------------------------------------------------------------
(* Inputs of a run                                                         *)

IsLeapYear(y) == (y % 4 = 0 /\ y % 100 # 0) \/ y % 400 = 0

\* days of month m (0-based) of year y
DaysInMonth(y, m) ==
    IF m = 1 THEN (IF IsLeapYear(y) THEN 29 ELSE 28)
    ELSE IF m \in {3, 5, 8, 10} THEN 30
    ELSE 31

\* day d of month m (0..11) of year y, a day outside the month carried into
\* the months before or after it
RECURSIVE MakeDay(_, _, _)
MakeDay(y, m, d) ==
    IF d < 1
    THEN LET py == IF m = 0 THEN y - 1 ELSE y
             pm == IF m = 0 THEN 11 ELSE m - 1
         IN  MakeDay(py, pm, d + DaysInMonth(py, pm))
    ELSE IF d > DaysInMonth(y, m)
    THEN MakeDay(IF m = 11 THEN y + 1 ELSE y, IF m = 11 THEN 0 ELSE m + 1,
                 d - DaysInMonth(y, m))
    ELSE [year |-> y, month |-> m, date |-> d]

\* new Date(y, m, d) in local time, as its calendar fields: a year 0..99 is
\* 1900 + y, a month outside 0..11 carries into the year, a day outside the
\* month carries into the month
Date(y, m, d) ==
    LET fullYear == IF 0 <= y /\ y <= 99 THEN 1900 + y ELSE y
    IN  MakeDay(fullYear + (m \div 12), m % 12, d)

\* 2025-09-02, 2025-09-10, 2025-01-02, 2025-01-07, 2025-01-08
RunDates == {Date(2025, 8, 2), Date(2025, 8, 10), Date(2025, 0, 2),
             Date(2025, 0, 7), Date(2025, 0, 8)}

EmailValues == {<<>>, <<"m", "e">>, <<"p", "w">>}
RunMonthValues == {<<"9">>}
RunWindowValues == {<<"3">>}

EnvAllowed(name, monthValues, windowValues) ==
    IF name = MONTH_VAR THEN monthValues
    ELSE IF name = WINDOW_VAR THEN windowValues
    ELSE EmailValues

\* every environment that sets some of the names in `names`
Envs(names, monthValues, windowValues) ==
    LET all == EmailValues \cup monthValues \cup windowValues
    IN  {e \in UNION {[S -> all] : S \in SUBSET names} :
            \A n \in DOMAIN e : e[n] \in EnvAllowed(n, monthValues, windowValues)}

EmailNameSet == {EmailNames[i] : i \in 1..3}
RunEnvs == Envs(EmailNameSet \cup {MONTH_VAR, WINDOW_VAR}, RunMonthValues, RunWindowValues)

\* the .env files of a run: none; one that sets the three e-mail variables;
\* one that sets EMAIL_PASS; one that sets it to ""; one that sets the
\* window and EMAIL_TO
DotenvFiles ==
    {[n \in {} |-> <<>>],
     [n \in EmailNameSet |-> IF n = "EMAIL_FROM" THEN <<"m", "e">> ELSE <<"p", "w">>],
     [n \in {"EMAIL_PASS"} |-> <<"p", "w">>],
     [n \in {"EMAIL_PASS"} |-> <<>>],
     [n \in {"EMAIL_TO", MONTH_VAR, WINDOW_VAR} |->
        IF n = "EMAIL_TO" THEN <<"m", "e">> ELSE IF n = MONTH_VAR THEN <<"9">> ELSE <<"3">>]}

\* what the provider returns in a run: samples numeric in both fields (the
\* other samples are the subject of SpecReturn)
RunSamples == {[adjClose |-> Num(p), close |-> Num(p)] : p \in Prices}
RunHistories == UNION {[1..n -> RunSamples] : n \in 0..MaxLen}

----------------------------------------------------------------------------
(* The run: node dualMomentum.js                                           *)

Init ==
    /\ env \in RunEnvs
    /\ today \in RunDates
    /\ pc = "load"
    /\ consts = NoConsts
    /\ loadError = NoError
    /\ fetch = NoFetch
    /\ fetchCalls = NoCalls
    /\ rets = NoRets
    /\ result = NoResult
    /\ mails = <<>>
    /\ exitCode = -1
    /\ errorLog = NoError
    /\ rejection = NoError
    /\ hist = <<>>
    /\ out = NoOutcome
    /\ lastCall = NoCall

\* lines 27-29: the first requireEnv that throws ends the load
LoadOutcome(e) ==
    LET from == requireEnv(e, "EMAIL_FROM")
        to == requireEnv(e, "EMAIL_TO")
        pass == requireEnv(e, "EMAIL_PASS")
    IN  IF ~from.ok THEN [ok |-> FALSE, error |-> from.error, consts |-> NoConsts]
        ELSE IF ~to.ok THEN [ok |-> FALSE, error |-> to.error, consts |-> NoConsts]
        ELSE IF ~pass.ok THEN [ok |-> FALSE, error |-> pass.error, consts |-> NoConsts]
        ELSE [ok |-> TRUE, error |-> NoError,
              consts |-> [EMAIL_FROM |-> from.value, EMAIL_TO |-> to.value,
                          EMAIL_PASS |-> pass.value]]

\* import "dotenv/config", line 1: a variable of the .env file is added to
\* process.env unless process.env has it already (set to "" counts as set).
\* `file` is the parsed content of .env, empty when there is no such file.
DotenvConfig(e, file) ==
    [n \in DOMAIN e \cup DOMAIN file |-> IF n \in DOMAIN e THEN e[n] ELSE file[n]]

\* The synchronous part of the start: the module body (lines 1-202), which
\* begins by loading .env, and, the file being the one invoked, main() up to
\* the await of Promise.all, which has called getReturn for the three
\* tickers, each up to its await of yahooFinance.historical.
ModuleLoad ==
    /\ pc = "load"
    /\ \E file \in DotenvFiles :
        LET loaded == DotenvConfig(env, file)
            l == LoadOutcome(loaded)
        IN  /\ env' = loaded
            /\ IF ~l.ok
               THEN /\ pc' = "aborted"
                    /\ loadError' = l.error
                    /\ exitCode' = 1
                    /\ UNCHANGED <<consts, fetch, fetchCalls>>
               ELSE /\ pc' = "fetching"
                    /\ consts' = l.consts
                    /\ fetch' = [r \in Roles |-> "pending"]
                    /\ fetchCalls' = [r \in Roles |-> fetchCalls[r] + 1]
                    /\ UNCHANGED <<loadError, exitCode>>
    /\ UNCHANGED <<rets, result, mails, errorLog, rejection, today, hist, out, lastCall>>

\* main's catch, lines 190-193: console.error, process.exit(1)
CatchAndExit(err) ==
    /\ pc' = "exited"
    /\ exitCode' = 1
    /\ errorLog' = err

\* A getReturn promise rejects with err.  The first rejection rejects
\* Promise.all, and main's catch is then due; a later one changes nothing,
\* Promise.all being settled.
RejectAll(err) ==
    IF pc = "fetching"
    THEN pc' = "rejected" /\ rejection' = err
    ELSE UNCHANGED <<pc, rejection>>

\* The provider resolves the fetch of `role` with history h; getReturn runs
\* to its end.  A throw rejects its promise.  The last of the three to
\* resolve, the other two having resolved, lets momentumStrategy finish, and
\* main goes on to the await of the base e-mail's sendMail.  The step is
\* also taken between a rejection and main's catch, by a fetch that settled
\* in the same turn of the event loop.
FetchResolve(role, h) ==
    /\ pc \in {"fetching", "rejected"}
    /\ fetch[role] = "pending"
    /\ LET o == getReturn(TickerOf(role), h)
           newRets == [rets EXCEPT ![role] = o.value]
       IN  IF ~o.ok
           THEN /\ fetch' = [fetch EXCEPT ![role] = "failed"]
                /\ RejectAll(o.error)
                /\ UNCHANGED <<rets, result, mails>>
           ELSE /\ fetch' = [fetch EXCEPT ![role] = "ok"]
                /\ rets' = newRets
                /\ IF pc = "fetching" /\ \A r \in Roles \ {role} : fetch[r] = "ok"
                   THEN LET res == momentumStrategy(newRets["US"], newRets["INTL"],
                                                    newRets["RF"])
                        IN  /\ result' = res
                            /\ mails' = <<sendEmail(consts, baseEmailBody(res), BasePrefix)>>
                            /\ pc' = "sendingBase"
                   ELSE UNCHANGED <<result, mails, pc>>
                /\ UNCHANGED rejection
    /\ UNCHANGED <<env, consts, loadError, fetchCalls, exitCode, errorLog, today,
                   hist, out, lastCall>>

\* Variant of FetchReject: the error is swallowed, a return of 0 stands in
\* for the failed computation and the run goes on
FetchReject_Swallowed(role) ==
    /\ pc \in {"fetching", "rejected"}
    /\ fetch[role] = "pending"
    /\ fetch' = [fetch EXCEPT ![role] = "failed"]
    /\ rets' = [rets EXCEPT ![role] = Rat(0, 1)]
    /\ UNCHANGED <<env, pc, consts, loadError, fetchCalls, result, mails, exitCode,
                   errorLog, rejection, today, hist, out, lastCall>>

\* The provider rejects the fetch of `role`: getReturn rejects with the
\* provider's error.
FetchReject(role) ==
    /\ pc \in {"fetching", "rejected"}
    /\ fetch[role] = "pending"
    /\ fetch' = [fetch EXCEPT ![role] = "failed"]
    /\ RejectAll(<<"provider error for ", TickerOf(role)>>)
    /\ UNCHANGED <<env, consts, loadError, fetchCalls, rets, result, mails, exitCode,
                   errorLog, today, hist, out, lastCall>>

\* main resumes in its catch with the reason Promise.all rejected with; the
\* fetches still pending are abandoned by process.exit
MainCatch ==
    /\ pc = "rejected"
    /\ CatchAndExit(rejection)
    /\ UNCHANGED <<env, consts, loadError, fetch, fetchCalls, rets, result, mails,
                   rejection, today, hist, out, lastCall>>

Settle(ms, st) == [ms EXCEPT ![Len(ms)].status = st]

\* Variant of SendBaseSettled: the annual e-mail follows a delivered base
\* e-mail whatever the date
SendBaseSettled_NoWindowCheck(delivered) ==
    /\ pc = "sendingBase"
    /\ IF ~delivered
       THEN /\ mails' = [mails EXCEPT ![Len(mails)].status = "failed"]
            /\ CatchAndExit(<<"sendMail rejected">>)
       ELSE /\ mails' = Append([mails EXCEPT ![Len(mails)].status = "sent"],
                               sendEmail(consts, taxableMsg(result), TaxablePrefix))
            /\ pc' = "sendingTaxable"
            /\ UNCHANGED <<exitCode, errorLog>>
    /\ UNCHANGED <<env, consts, loadError, fetch, fetchCalls, rets, result, rejection,
                   today, hist, out, lastCall>>

\* sendMail of the base e-mail settles.  Resolved: line 179 reads the date
\* and, inside the window, main goes on to the await of the second sendMail;
\* outside it main returns.  Rejected: main catches.
SendBaseSettled(delivered) ==
    /\ pc = "sendingBase"
    /\ IF ~delivered
       THEN /\ mails' = Settle(mails, "failed")
            /\ CatchAndExit(<<"sendMail rejected">>)
       ELSE IF isInTaxableAnnualWindow(env, today)
       THEN /\ mails' = Append(Settle(mails, "sent"),
                               sendEmail(consts, taxableMsg(result), TaxablePrefix))
            /\ pc' = "sendingTaxable"
            /\ UNCHANGED <<exitCode, errorLog>>
       ELSE /\ mails' = Settle(mails, "sent")
            /\ pc' = "done"
            /\ exitCode' = 0
            /\ UNCHANGED errorLog
    /\ UNCHANGED <<env, consts, loadError, fetch, fetchCalls, rets, result, rejection,
                   today, hist, out, lastCall>>

\* sendMail of the annual e-mail settles
SendTaxableSettled(delivered) ==
    /\ pc = "sendingTaxable"
    /\ IF ~delivered
       THEN /\ mails' = Settle(mails, "failed")
            /\ CatchAndExit(<<"sendMail rejected">>)
       ELSE /\ mails' = Settle(mails, "sent")
            /\ pc' = "done"
            /\ exitCode' = 0
            /\ UNCHANGED errorLog
    /\ UNCHANGED <<env, consts, loadError, fetch, fetchCalls, rets, result, rejection,
                   today, hist, out, lastCall>>

Next ==
    \/ ModuleLoad
    \/ \E role \in Roles, h \in RunHistories : FetchResolve(role, h)
    \/ \E role \in Roles : FetchReject(role)
    \/ MainCatch
    \/ \E delivered \in BOOLEAN : SendBaseSettled(delivered)
    \/ \E delivered \in BOOLEAN : SendTaxableSettled(delivered)

Spec == Init /\ [][Next]_vars

----------------------------------------------------------------------------
(* getReturn on its own: the provider returns any history of at most       *)
(* MaxLen samples, then getReturn runs on it                               *)

InitReturn ==
    /\ pc = "building"
    /\ hist = <<>>
    /\ out = NoOutcome
    /\ env = <<>>
    /\ today = NoDate
    /\ consts = NoConsts
    /\ loadError = NoError
    /\ fetch = NoFetch
    /\ fetchCalls = NoCalls
    /\ rets = NoRets
    /\ result = NoResult
    /\ mails = <<>>
    /\ exitCode = -1
    /\ errorLog = NoError
    /\ rejection = NoError
    /\ lastCall = NoCall

ProviderAppend(sample) ==
    /\ pc = "building"
    /\ Len(hist) < MaxLen
    /\ hist' = Append(hist, sample)
    /\ UNCHANGED <<env, pc, consts, loadError, fetch, fetchCalls, rets, result, mails,
                   exitCode, errorLog, rejection, today, out, lastCall>>

CallGetReturn(role) ==
    /\ pc = "building"
    /\ out' = getReturn(TickerOf(role), hist)
    /\ pc' = "returned"
    /\ UNCHANGED <<env, consts, loadError, fetch, fetchCalls, rets, result, mails,
                   exitCode, errorLog, rejection, today, hist, lastCall>>

NextReturn ==
    \/ \E sample \in Samples : ProviderAppend(sample)
    \/ \E role \in Roles : CallGetReturn(role)

SpecReturn == InitReturn /\ [][NextReturn]_vars

----------------------------------------------------------------------------
(* The exported window predicate, called with the module imported and the  *)
(* environment changed between calls (as the tests do)                     *)

\* "9", "3", "1", "7", "12", "13", "0", "31", "32", "x", "9x", "-1", " 3", "+2", "",
\* TAB "9", NBSP "3"
WindowRawValues ==
    {<<"9">>, <<"3">>, <<"1">>, <<"7">>, <<"1", "2">>, <<"1", "3">>, <<"0">>,
     <<"3", "1">>, <<"3", "2">>, <<"x">>, <<"9", "x">>, <<"-", "1">>, <<" ", "3">>,
     <<"+", "2">>, <<>>, <<"\t", "9">>, <<"U+00A0", "3">>}

WindowDates ==
    {Date(2025, 8, 1), Date(2025, 8, 2), Date(2025, 8, 3), Date(2025, 8, 4),
     Date(2025, 8, 10), Date(2025, 0, 1), Date(2025, 0, 2), Date(2025, 0, 7),
     Date(2025, 0, 8), Date(2025, 9, 2), Date(2025, 1, 2), Date(2025, 11, 12),
     Date(2025, 11, 31), Date(2025, 2, 31), Date(2025, 6, 7),
     Date(2025, 7, 32), Date(2025, 8, 0), Date(2025, 12, 1)}

ImportedEnv == [n \in EmailNameSet |-> <<"m", "e">>]

InitWindow ==
    /\ pc = "imported"
    /\ env = ImportedEnv
    /\ consts = LoadOutcome(ImportedEnv).consts
    /\ lastCall = NoCall
    /\ today = NoDate
    /\ loadError = NoError
    /\ fetch = NoFetch
    /\ fetchCalls = NoCalls
    /\ rets = NoRets
    /\ result = NoResult
    /\ mails = <<>>
    /\ exitCode = -1
    /\ errorLog = NoError
    /\ rejection = NoError
    /\ hist = <<>>
    /\ out = NoOutcome

\* process.env[name] = value; the result of the call made before the change
\* is forgotten, so that lastCall always belongs to the environment in force
SetEnv(name, value) ==
    /\ pc = "imported"
    /\ env' = [n \in DOMAIN env \cup {name} |-> IF n = name THEN value ELSE env[n]]
    /\ lastCall' = NoCall
    /\ UNCHANGED <<pc, consts, loadError, fetch, fetchCalls, rets, result, mails,
                   exitCode, errorLog, rejection, today, hist, out>>

\* delete process.env[name]
DeleteEnv(name) ==
    /\ pc = "imported"
    /\ name \in DOMAIN env
    /\ env' = [n \in DOMAIN env \ {name} |-> env[n]]
    /\ lastCall' = NoCall
    /\ UNCHANGED <<pc, consts, loadError, fetch, fetchCalls, rets, result, mails,
                   exitCode, errorLog, rejection, today, hist, out>>

CallIsInTaxableAnnualWindow(d) ==
    /\ pc = "imported"
    /\ lastCall' = [fn |-> "isInTaxableAnnualWindow", d |-> d,
                    value |-> isInTaxableAnnualWindow(env, d)]
    /\ UNCHANGED <<env, pc, consts, loadError, fetch, fetchCalls, rets, result, mails,
                   exitCode, errorLog, rejection, today, hist, out>>

NextWindow ==
    \/ \E name \in {MONTH_VAR, WINDOW_VAR}, value \in WindowRawValues : SetEnv(name, value)
    \/ \E name \in {MONTH_VAR, WINDOW_VAR} : DeleteEnv(name)
    \/ \E d \in WindowDates : CallIsInTaxableAnnualWindow(d)

SpecWindow == InitWindow /\ [][NextWindow]_vars

----------------------------------------------------------------------------
(* Properties of the run (Spec)                                            *)

Evaluated == result # NoResult
Terminal == pc \in {"done", "exited"}

\* the three values the return computations resolved with
UsRet == rets["US"]
IntlRet == rets["INTL"]
RfRet == rets["RF"]

\* max(usReturn, intlReturn) > riskFreeReturn, spelled out
BestBeatsRiskFree == RatGt(UsRet, RfRet) \/ RatGt(IntlRet, RfRet)

\* C1: when the larger of usReturn and intlReturn exceeds riskFreeReturn, the
\* result has absoluteFilterPassed = true and a non-null winner, which is US
\* when usReturn > intlReturn and INTL when intlReturn > usReturn.
C1_WinnerWhenFilterPasses ==
    (Evaluated /\ BestBeatsRiskFree) =>
        /\ result.absoluteFilterPassed
        /\ result.winner \in {"US", "INTL"}
        /\ RatGt(UsRet, IntlRet) => result.winner = "US"
        /\ RatGt(IntlRet, UsRet) => result.winner = "INTL"
        /\ result.usReturn = UsRet /\ result.intlReturn = IntlRet
        /\ result.riskFreeReturn = RfRet

C1_Witness ==
    /\ Evaluated
    /\ RatGt(IntlRet, UsRet)
    /\ RatGt(IntlRet, RfRet)
    /\ result.winner = "INTL"
    /\ result.absoluteFilterPassed

\* C2: when neither usReturn nor intlReturn exceeds riskFreeReturn (equality
\* included), absoluteFilterPassed = false and the winner is null, whichever
\* equity led.
C2_NoWinnerWhenFilterFails ==
    (Evaluated /\ ~BestBeatsRiskFree) =>
        /\ ~result.absoluteFilterPassed
        /\ result.winner = NoWinner

C2_Witness ==
    /\ Evaluated
    /\ RatGt(UsRet, IntlRet)
    /\ RatEq(UsRet, RfRet)
    /\ ~result.absoluteFilterPassed
    /\ result.winner = NoWinner

\* the equity the result names as the relative-momentum leader: the winner
\* when the filter passed, the equity cited in the failure text otherwise
NominalWinner == IF result.absoluteFilterPassed THEN result.winner
                 ELSE result.recommendation[4]

\* C3 as stated: on a tie (usReturn = intlReturn) the nominal winner is US.
C3_TieResolvesToUS ==
    (Evaluated /\ RatEq(UsRet, IntlRet)) => NominalWinner = "US"

\* C3 as amended: on a tie (usReturn = intlReturn) the nominal winner is
\* INTL, as the winner field when the filter passes and as the equity cited
\* in the recommendation when it fails.
C3_TieResolvesToINTL ==
    (Evaluated /\ RatEq(UsRet, IntlRet)) => NominalWinner = "INTL"

C3_Witness ==
    /\ Evaluated
    /\ RatEq(UsRet, IntlRet)
    /\ result.absoluteFilterPassed
    /\ result.winner = "INTL"

AllTickers == Tickers \cup {RISK_FREE_SYMBOL}
NamedTickers(rec) == {i \in DOMAIN rec : rec[i] \in AllTickers}

\* C4: the recommendation names exactly one ticker.  Filter passed: a 100%
\* allocation to the winner's ticker (VOO for US, VXUS for INTL).  Filter
\* failed: the bond ticker BND, and the text cites the equity chosen by the
\* relative-momentum comparison as having failed against the risk-free return.
C4_RecommendationNamesOneTicker ==
    Evaluated =>
        LET rec == result.recommendation
        IN  /\ Cardinality(NamedTickers(rec)) = 1
            /\ result.absoluteFilterPassed =>
                  /\ rec[1] = "Allocate 100% to "
                  /\ rec[2] = result.winner
                  /\ rec[4] = (IF result.winner = "US" THEN "VOO" ELSE "VXUS")
            /\ ~result.absoluteFilterPassed =>
                  /\ rec[1] = "Move to Bonds ("
                  /\ rec[2] = "BND"
                  /\ rec[3] = "). Absolute momentum failed: "
                  /\ rec[4] = (IF RatGt(UsRet, IntlRet) THEN "US" ELSE "INTL")
                  /\ rec[6] = toPercent(IF RatGt(UsRet, IntlRet) THEN UsRet ELSE IntlRet)
                  /\ rec[7] = " <= Risk-free ("
                  /\ rec[8] = toPercent(RfRet)

C4_Witness ==
    /\ Evaluated
    /\ ~result.absoluteFilterPassed
    /\ RatGt(UsRet, IntlRet)
    /\ result.recommendation[2] = "BND"
    /\ result.recommendation[4] = "US"

\* C6: once one of the three return computations has failed (provider error
\* or insufficient data, in any order of completion) there is no
\* MomentumResult, no e-mail has been handed to the transport and each fetch
\* was issued once, whatever the other two computations do; main's catch is
\* due or has run, and when it has run the process has exited with status 1
\* (the run never ends with status 0).
C6_FailedFetchAbortsRun ==
    (\E r \in Roles : fetch[r] = "failed") =>
        /\ result = NoResult
        /\ mails = <<>>
        /\ \A r \in Roles : fetchCalls[r] = 1
        /\ pc \in {"rejected", "exited"}
        /\ rejection # NoError
        /\ pc = "rejected" => exitCode = -1 /\ ENABLED MainCatch
        /\ pc = "exited" => exitCode = 1 /\ errorLog = rejection

\* the run has ended after the risk-free computation failed first and the
\* two others, settled in the same turn, ran on: one resolved, one failed
C6_Witness ==
    /\ fetch["RF"] = "failed"
    /\ fetch["US"] = "ok"
    /\ fetch["INTL"] = "failed"
    /\ errorLog = <<"Insufficient price data for ", RISK_FREE_SYMBOL>>
    /\ pc = "exited"
    /\ exitCode = 1

BaseSubject == <<"Dual Momentum Rebalance - ">>
TaxableSubject == <<"[Taxable Annual] ", "Dual Momentum Rebalance - ">>
BaseMails == {i \in DOMAIN mails : mails[i].subject = BaseSubject}
TaxableMails == {i \in DOMAIN mails : mails[i].subject = TaxableSubject}
LastLine(text) == text[Len(text)]

\* what C8 states apart from the condition of the second e-mail
C8_Common ==
    /\ Cardinality(BaseMails) = 1
    /\ Cardinality(TaxableMails) <= 1
    /\ BaseMails \cup TaxableMails = DOMAIN mails
    /\ \A j \in TaxableMails : \E i \in BaseMails : i < j /\ mails[i].status = "sent"
    /\ \A i \in DOMAIN mails : LastLine(mails[i].text) = result.recommendation

\* C8 as stated: when the evaluation succeeded the base e-mail is sent once,
\* and by the end of the run a second e-mail with the prefix "[Taxable
\* Annual] " has been sent if and only if the date is inside the window.
C8_SecondMailIffInWindow ==
    Evaluated =>
        /\ C8_Common
        /\ Terminal => (TaxableMails # {} <=> isInTaxableAnnualWindow(env, today))

\* C8 as amended: when the evaluation succeeded the base e-mail is handed to
\* the transport exactly once; by the end of the run a second e-mail with
\* the prefix "[Taxable Annual] " has been handed to it if and only if the
\* base e-mail was delivered and the date is inside the window; the second
\* follows the delivery of the base e-mail, and both end with the
\* recommendation of the result.
C8_SecondMailIffDeliveredAndInWindow ==
    Evaluated =>
        /\ C8_Common
        /\ Terminal =>
              (TaxableMails # {} <=>
                  /\ \E i \in BaseMails : mails[i].status = "sent"
                  /\ isInTaxableAnnualWindow(env, today))

C8_Witness ==
    /\ pc = "done"
    /\ Len(mails) = 2
    /\ mails[1].status = "sent" /\ mails[1].subject = BaseSubject
    /\ mails[2].status = "sent" /\ mails[2].subject = TaxableSubject
    /\ LastLine(mails[2].text) = LastLine(mails[1].text)

Missing(name) == name \notin DOMAIN env \/ env[name] = <<>>
FirstMissing == EmailNames[CHOOSE i \in 1..3 :
                    /\ Missing(EmailNames[i])
                    /\ \A j \in 1..(i - 1) : ~Missing(EmailNames[j])]

\* C9: requireEnv returns a set, non-empty value unchanged and throws
\* "Missing required env var: <name>" for an unset or empty one; a run with
\* EMAIL_FROM, EMAIL_TO or EMAIL_PASS missing aborts at module load, before
\* any fetch is issued and before any e-mail is handed to the transport.
\* Missing is read in process.env as requireEnv finds it, that is, with the
\* variables .env has added.
C9_RequireEnvAndFailFast ==
    /\ (pc # "load" /\ \A n \in EmailNameSet : ~Missing(n)) =>
          /\ pc # "aborted"
          /\ \A n \in EmailNameSet : consts[n] = env[n]
    /\ (pc # "load" /\ \E n \in EmailNameSet : Missing(n)) =>
          /\ pc = "aborted"
          /\ loadError = <<"Missing required env var: ", FirstMissing>>
    /\ (\E n \in EmailNameSet : Missing(n)) =>
          /\ \A r \in Roles : fetchCalls[r] = 0 /\ fetch[r] = "idle"
          /\ mails = <<>>
          /\ result = NoResult

C9_Witness ==
    /\ pc = "aborted"
    /\ ~Missing("EMAIL_FROM")
    /\ ~Missing("EMAIL_TO")
    /\ "EMAIL_PASS" \in DOMAIN env /\ env["EMAIL_PASS"] = <<>>
    /\ loadError = <<"Missing required env var: ", "EMAIL_PASS">>

----------------------------------------------------------------------------
(* Properties of getReturn (SpecReturn)                                    *)

\* the positions of the history whose extracted value is a finite number
NumericAt(history) ==
    {i \in DOMAIN history : isNumber(MapCloses(history)[i])}

SetMax(S) == CHOOSE x \in S : \A y \in S : y <= x
SetMin(S) == CHOOSE x \in S : \A y \in S : x <= y

\* C5: getReturn throws the insufficient-data error whenever fewer than 2
\* numeric closes remain once the non-numeric samples are discarded and the
\* most recent one is dropped, and returns a number only when at least 2 remain.
C5_InsufficientData ==
    pc = "returned" =>
        LET n == Cardinality(NumericAt(hist))
            remaining == IF n = 0 THEN 0 ELSE n - 1
        IN  /\ remaining < 2 =>
                  /\ ~out.ok
                  /\ out.error[1] = "Insufficient price data for "
                  /\ out.error[2] \in AllTickers
            /\ remaining >= 2 => out.ok /\ out.error = <<>>

C5_Witness ==
    /\ pc = "returned"
    /\ Len(hist) = 3
    /\ Cardinality(NumericAt(hist)) = 2
    /\ ~out.ok

\* C10: with at least 3 numeric closes, getReturn drops exactly the final
\* sample of the history (the current, partial month) and returns
\* lastClose / firstClose - 1, with firstClose the earliest numeric close and
\* lastClose the latest numeric close among the samples before the final
\* one.  The code filters before it slices (lines 64 and 67): when the final
\* sample is not numeric it is filtered out and the slice then drops the last
\* complete month as well, e.g. closes 1, 1, 2, NaN give 0 where the claim
\* and the comment of line 67 ("drop last month") give 1.
C10_DropsFinalSampleOfHistory ==
    (pc = "returned" /\ Cardinality(NumericAt(hist)) >= 3) =>
        LET m == MapCloses(hist)
            kept == NumericAt(hist) \ {Len(hist)}
            first == m[SetMin(kept)]
            last == m[SetMax(kept)]
        IN  /\ out.ok
            /\ out.value = Rat(last.v - first.v, first.v)

\* the value the claim lets a sample contribute: the adjusted close when it
\* is a finite number, otherwise the close
PreferredValue(sample) ==
    IF isNumber(sample.adjClose) THEN sample.adjClose ELSE sample.close

\* the closes of the samples that have a finite value in either field, in
\* the order of the history
ValuesOfUsableSamples(history) ==
    SelectSeq([i \in 1..Len(history) |-> PreferredValue(history[i])], isNumber)

\* C11: every sample contributes its adjusted close when that is numeric and
\* otherwise its close, a sample is dropped only when neither field is a
\* finite number, and the kept values stay in order; so the outcome of
\* getReturn is the one computed from those values (the last of them dropped,
\* an error when fewer than 2 remain, else last / first - 1).
C11_SampleDroppedOnlyWithoutNumericValue ==
    pc = "returned" =>
        LET kept == ValuesOfUsableSamples(hist)
            used == SubSeq(kept, 1, Len(kept) - 1)
        IN  IF Len(used) < 2
            THEN ~out.ok
            ELSE /\ out.ok
                 /\ out.value = Rat(used[Len(used)].v - used[1].v, used[1].v)

----------------------------------------------------------------------------
(* Properties of the window predicate (SpecWindow)                         *)

\* C7: isInTaxableAnnualWindow(d) is true exactly when d's calendar month
\* (1-12) equals the configured month and d's day of month is at most the
\* configured windowDays, for the configuration in force at the call; with
\* month 9 and windowDays 3 set, 2025-09-02 is inside and 2025-09-10 and
\* 2025-01-02 are outside.
C7_WindowPredicate ==
    lastCall.fn = "isInTaxableAnnualWindow" =>
        LET cfg == getTaxableConfig(env)
            d == lastCall.d
        IN  /\ lastCall.value <=> (d.month + 1 = cfg.month /\ d.date <= cfg.windowDays)
            /\ (IsSet(env, MONTH_VAR) /\ IsSet(env, WINDOW_VAR)
                /\ env[MONTH_VAR] = <<"9">> /\ env[WINDOW_VAR] = <<"3">>) =>
                  /\ d = Date(2025, 8, 2) => lastCall.value
                  /\ d = Date(2025, 8, 3) => lastCall.value
                  /\ d = Date(2025, 8, 10) => ~lastCall.value
                  /\ d = Date(2025, 0, 2) => ~lastCall.value

C7_Witness ==
    /\ lastCall.fn = "isInTaxableAnnualWindow"
    /\ IsSet(env, MONTH_VAR) /\ env[MONTH_VAR] = <<"9">>
    /\ IsSet(env, WINDOW_VAR) /\ env[WINDOW_VAR] = <<"3">>
    /\ lastCall.d = Date(2025, 8, 3)
    /\ lastCall.value

====
